---- MODULE Spec2Model ----
(***************************************************************************)
(* Model of src/main.rs of connect-four: the Grid (get / insert /          *)
(* add_at_column), the straight-match scan (get_matches /                  *)
(* straight_matches), and the per-frame Update systems (check_mouse_pos,   *)
(* spawn_element).                                                         *)
(***************************************************************************)
EXTENDS Integers, Sequences, FiniteSets, TLC

(* ------------------------------------------------------------------ *)
(* Program constants                                                   *)
(* ------------------------------------------------------------------ *)
\* setup(): Grid { width: 7, height: 6, .. }
GridWidth == 7
GridHeight == 6
\* enum ElementType { Red = 0, Blue = 1 }
Red == 0
Blue == 1
ElementTypes == {Red, Blue}

(* ------------------------------------------------------------------ *)
(* Bounds of the exploration                                           *)
(* ------------------------------------------------------------------ *)
\* pieces an unconstrained caller places before it stops placing
MaxPieces == 5
\* pieces the players place before the clicks stop
MaxMoves == 8
\* the cursor only visits the columns 0 .. MaxCursorColumns-1
MaxCursorColumns == 3
\* a caller with unchecked arguments names the columns
\* 0 .. width + MaxBeyond - 1 and places at most MaxUncheckedPieces pieces
MaxBeyond == 2
MaxUncheckedPieces == 3
\* a caller of insert writes the cells of the columns 0 .. MaxInsertColumns-1
\* and of the rows 0 .. MaxInsertRows-1
MaxInsertColumns == 2
MaxInsertRows == 2
\* pieces placed by the caller that stacks one column on a bottom row
MaxCrossPieces == 7

VARIABLES
    grid,      \* the Grid component: [width, height, elements]
    call,      \* arguments of the most recent call on the Grid, <<>> before any
    result,    \* value the most recent add_at_column call returned to its caller
    written,   \* history: for each position, the type of the latest insert there
    column,    \* resource Column(Option<u32>)
    player,    \* resource Player(Option<u32>)
    winner,    \* Option: player named by the most recent winner line
    out,       \* lines the most recent spawn_element run printed
    panicked   \* TRUE once a system has panicked (the app is dead)

vars == <<grid, call, result, written, column, player, winner, out, panicked>>

\* Option<T>
None == <<>>
Some(v) == <<v>>
Unwrap(o) == o[1]

(* ------------------------------------------------------------------ *)
(* Grid                                                                *)
(* ------------------------------------------------------------------ *)
\* Result<&u32, ElemError>
Ok(v) == [ok |-> TRUE, val |-> v]
Err(e) == [ok |-> FALSE, val |-> e]
NoElem == "NoElem"

\* fn get(&self, pos) -> Result<&u32, ElemError>
Get(g, pos) ==
    IF pos \notin DOMAIN g.elements
    THEN Err(NoElem)
    ELSE Ok(g.elements[pos])

\* insert that keeps an existing value: `entry(pos).or_insert(typ)`
Insert_KeepExisting(g, pos, typ) ==
    [g EXCEPT !.elements =
        [p \in (DOMAIN g.elements) \cup {pos} |->
            IF p \in DOMAIN g.elements THEN g.elements[p] ELSE typ]]

\* fn insert(&mut self, pos, typ): HashMap::insert, overwriting
Insert(g, pos, typ) ==
    [g EXCEPT !.elements =
        [p \in (DOMAIN g.elements) \cup {pos} |->
            IF p = pos THEN typ ELSE g.elements[p]]]

\* the body of `for y in 0..self.height` of add_at_column, from row y on
RECURSIVE AddLoop(_, _, _, _)
AddLoop(g, col, typ, y) ==
    IF y >= g.height
    THEN g
    ELSE IF ~Get(g, <<col, y>>).ok
         THEN Insert(g, <<col, y>>, typ)
         ELSE AddLoop(g, col, typ, y + 1)

\* the highest empty row of column col, or -1
RECURSIVE TopEmptyRow(_, _, _)
TopEmptyRow(g, col, y) ==
    IF y < 0 \/ ~Get(g, <<col, y>>).ok THEN y ELSE TopEmptyRow(g, col, y - 1)

\* add_at_column scanning the rows from the top: `for y in (0..height).rev()`
AddAtColumn_FromTop(g, col, typ) ==
    LET y == TopEmptyRow(g, col, g.height - 1) IN
    IF y < 0 THEN g ELSE Insert(g, <<col, y>>, typ)

\* add_at_column with `for y in 1..self.height`
AddAtColumn_FromRowOne(g, col, typ) == AddLoop(g, col, typ, 1)

\* add_at_column that stores into the top row when the loop finds no empty row
AddAtColumn_OverwriteTop(g, col, typ) ==
    IF \A y \in 0 .. (g.height - 1) : Get(g, <<col, y>>).ok
    THEN Insert(g, <<col, g.height - 1>>, typ)
    ELSE AddLoop(g, col, typ, 0)

\* the position add_at_column hands to insert, None when the loop ends
\* without an insert
RECURSIVE AddLoopInsertPos(_, _, _)
AddLoopInsertPos(g, col, y) ==
    IF y >= g.height
    THEN None
    ELSE IF ~Get(g, <<col, y>>).ok
         THEN Some(<<col, y>>)
         ELSE AddLoopInsertPos(g, col, y + 1)

\* the history after the call add_at_column(col, typ) on grid g
WrittenByAdd(w, g, col, typ) ==
    LET pos == AddLoopInsertPos(g, col, 0) IN
    IF pos = None
    THEN w
    ELSE [p \in (DOMAIN w) \cup {Unwrap(pos)} |->
             IF p = Unwrap(pos) THEN typ ELSE w[p]]

\* fn add_at_column(&mut self, column, element_type): the grid afterwards
AddAtColumn(g, col, typ) == AddLoop(g, col, typ, 0)

\* the value add_at_column hands back: the function has no return type, so
\* both exits (the `return` inside the loop, the end of the loop) yield ()
Unit == "()"
\* no call of add_at_column has returned yet
NoCall == "no call"
AddAtColumnResult(g, col, typ) == Unit

(* ------------------------------------------------------------------ *)
(* Match detection                                                     *)
(* ------------------------------------------------------------------ *)
Horizontal == "Horizontal"
Vertical == "Vertical"

\* Match::Straight(current_match.iter().cloned().collect()): a HashSet
Straight(current_match) == {current_match[i] : i \in 1..Len(current_match)}

\* the threshold of the doc comment "3 or more gems": `0..=2 => {}`
CloseRun_ThreeOrMore(matches, current_match) ==
    IF Len(current_match) <= 2
    THEN matches
    ELSE Append(matches, Straight(current_match))

\* match current_match.len() { 0..=3 => {}, _ => matches.add(..) }
CloseRun(matches, current_match) ==
    IF Len(current_match) <= 3
    THEN matches
    ELSE Append(matches, Straight(current_match))

\* the position visited for loop indices (one, two)
ScanPos(direction, one, two) ==
    IF direction = Horizontal THEN <<one, two>> ELSE <<two, one>>

\* range of the outer loop / the inner loop
OuterRange(g, direction) == IF direction = Horizontal THEN g.width ELSE g.height
InnerRange(g, direction) == IF direction = Horizontal THEN g.height ELSE g.width

\* the inner loop body whose type-change branch forgets the `matches.add`
ScanCell_DropOnTypeChange(g, st, pos) ==
    LET r == Get(g, pos) IN
    IF ~r.ok
    THEN st
    ELSE IF Len(st.current_match) = 0 \/ Unwrap(st.previous_type) = r.val
         THEN [st EXCEPT !.previous_type = Some(r.val),
                         !.current_match = Append(@, pos)]
         ELSE [matches |-> st.matches,
               current_match |-> <<pos>>,
               previous_type |-> Some(r.val)]

\* the inner loop body with an `else` for an empty cell that closes the run
ScanCell_EmptyBreaks(g, st, pos) ==
    LET r == Get(g, pos) IN
    IF ~r.ok
    THEN [matches |-> CloseRun(st.matches, st.current_match),
          current_match |-> <<>>,
          previous_type |-> None]
    ELSE IF Len(st.current_match) = 0 \/ Unwrap(st.previous_type) = r.val
         THEN [st EXCEPT !.previous_type = Some(r.val),
                         !.current_match = Append(@, pos)]
         ELSE [matches |-> CloseRun(st.matches, st.current_match),
               current_match |-> <<pos>>,
               previous_type |-> Some(r.val)]

\* the body of the inner loop at pos; st = [matches, current_match, previous_type]
ScanCell(g, st, pos) ==
    LET r == Get(g, pos) IN
    IF ~r.ok
    THEN st
    ELSE IF Len(st.current_match) = 0 \/ Unwrap(st.previous_type) = r.val
         THEN [st EXCEPT !.previous_type = Some(r.val),
                         !.current_match = Append(@, pos)]
         ELSE [matches |-> CloseRun(st.matches, st.current_match),
               current_match |-> <<pos>>,
               previous_type |-> Some(r.val)]

\* the inner loop `for two in ..`: the run state after its first n iterations,
\* entered with the run state st
RECURSIVE InnerLoop(_, _, _, _, _)
InnerLoop(g, direction, st, one, n) ==
    IF n = 0
    THEN st
    ELSE ScanCell(g, InnerLoop(g, direction, st, one, n - 1),
                  ScanPos(direction, one, n - 1))

\* the end of a sweep without the closing `match current_match.len()`
EndOfSweep_NoClose(st) ==
    [matches |-> st.matches,
     current_match |-> <<>>,
     previous_type |-> None]

\* after the inner loop: close the remaining run, reset the run state
EndOfSweep(st) ==
    [matches |-> CloseRun(st.matches, st.current_match),
     current_match |-> <<>>,
     previous_type |-> None]

\* let mut matches / current_match / previous_type before the loops
InitialScan == [matches |-> <<>>, current_match |-> <<>>, previous_type |-> None]

\* the outer loop `for one in ..`: the run state after its first n iterations.
\* (The test on st only orders the evaluation: the state the previous
\* iteration left is computed before the next sweep starts.)
RECURSIVE OuterLoop(_, _, _)
OuterLoop(g, direction, n) ==
    IF n = 0
    THEN InitialScan
    ELSE LET st == OuterLoop(g, direction, n - 1) IN
         IF Len(st.matches) >= 0
         THEN EndOfSweep(InnerLoop(g, direction, st,
                                   n - 1, InnerRange(g, direction)))
         ELSE st

\* fn straight_matches(&self, direction) -> Matches (the Vec<Match>)
StraightMatches(g, direction) ==
    OuterLoop(g, direction, OuterRange(g, direction)).matches

\* get_matches passing MatchDirection::Horizontal to both scans
GetMatches_SameDirection(g) ==
    StraightMatches(g, Horizontal) \o StraightMatches(g, Horizontal)

\* fn get_matches(&self) -> Matches
GetMatches(g) == StraightMatches(g, Horizontal) \o StraightMatches(g, Vertical)

\* a HashSet iterated in some order (the result below does not depend on it)
RECURSIVE Iter(_)
Iter(set) ==
    IF set = {}
    THEN <<>>
    ELSE LET p == CHOOSE q \in set : TRUE IN <<p>> \o Iter(set \ {p})

\* self.matches.iter().flat_map(|mat| match mat { Match::Straight(mat) => mat })
RECURSIVE FlatMap(_)
FlatMap(matches) ==
    IF matches = <<>>
    THEN <<>>
    ELSE Iter(Head(matches)) \o FlatMap(Tail(matches))

\* .cloned().collect() into a HashSet<UVec2>
Collect(seq) == {seq[i] : i \in 1 .. Len(seq)}

\* without_duplicates that drops every coordinate met a second time
WithoutDuplicates_DropsRepeated(matches) ==
    LET flat == FlatMap(matches) IN
    {p \in Collect(flat) : Cardinality({i \in 1 .. Len(flat) : flat[i] = p}) = 1}

\* fn without_duplicates(&self) -> HashSet<UVec2>
WithoutDuplicates(matches) == Collect(FlatMap(matches))

(* ------------------------------------------------------------------ *)
(* State machine                                                       *)
(* ------------------------------------------------------------------ *)
EmptyElements == [p \in {} |-> 0]

Init ==
    /\ grid = [width |-> GridWidth, height |-> GridHeight, elements |-> EmptyElements]
    /\ call = <<>>
    /\ result = NoCall
    /\ written = EmptyElements
    /\ column = None
    /\ player = Some(0)
    /\ winner = None
    /\ out = <<>>
    /\ panicked = FALSE

Columns(g) == 0 .. (g.width - 1)
Rows(g) == 0 .. (g.height - 1)
Pieces(g) == Cardinality(DOMAIN g.elements)
\* number of pieces stored in column col
ColumnCount(g, col) == Cardinality({p \in DOMAIN g.elements : p[1] = col})
ColumnIsFull(g, col) == \A y \in Rows(g) : <<col, y>> \in DOMAIN g.elements

\* a direct call grid.add_at_column(col, typ)
add_at_column(col, typ) ==
    /\ ~panicked
    /\ grid' = AddAtColumn(grid, col, typ)
    /\ call' = <<col, typ>>
    /\ result' = AddAtColumnResult(grid, col, typ)
    /\ written' = WrittenByAdd(written, grid, col, typ)
    /\ UNCHANGED <<column, player, winner, out, panicked>>

\* a direct call grid.insert(pos, typ)
insert(pos, typ) ==
    /\ ~panicked
    /\ grid' = Insert(grid, pos, typ)
    /\ call' = <<pos[1], pos[2], typ>>
    /\ written' = [p \in (DOMAIN written) \cup {pos} |->
                      IF p = pos THEN typ ELSE written[p]]
    /\ UNCHANGED <<result, column, player, winner, out, panicked>>

\* the core driven by an arbitrary caller: any in-range column, any type
Place ==
    \E col \in Columns(grid), typ \in ElementTypes :
        /\ Pieces(grid) < MaxPieces
        /\ add_at_column(col, typ)

\* a caller that targets one single column, up to and beyond its capacity
Stack ==
    \E col \in Columns(grid), typ \in ElementTypes :
        /\ \A p \in DOMAIN grid.elements : p[1] = col
        /\ add_at_column(col, typ)

\* a caller that drops one piece into each column, in any order
FillBottomRow ==
    \E col \in Columns(grid), typ \in ElementTypes :
        /\ \A p \in DOMAIN grid.elements : p[2] = 0 /\ p[1] # col
        /\ add_at_column(col, typ)

Next == Place \/ Stack \/ FillBottomRow

\* a caller that does not validate the column: indices at and beyond width
PlaceUnchecked ==
    \E col \in 0 .. (grid.width + MaxBeyond - 1), typ \in ElementTypes :
        /\ Pieces(grid) < MaxUncheckedPieces
        /\ add_at_column(col, typ)

NextUnchecked == PlaceUnchecked

\* a caller that writes cells directly, over empty and over occupied cells
InsertAt ==
    \E x \in 0 .. (MaxInsertColumns - 1), y \in 0 .. (MaxInsertRows - 1),
       typ \in ElementTypes :
        insert(<<x, y>>, typ)

\* the same caller dropping a piece into one of these columns while the
\* column has an empty cell among these rows
PlaceAmongInserts ==
    \E col \in 0 .. (MaxInsertColumns - 1), typ \in ElementTypes :
        /\ \E y \in 0 .. (MaxInsertRows - 1) : <<col, y>> \notin DOMAIN grid.elements
        /\ add_at_column(col, typ)

\* a caller that, after dropping pieces into the bottom row, stacks pieces on
\* one of the occupied columns
StackOnRow ==
    \E col \in Columns(grid), typ \in ElementTypes :
        /\ Pieces(grid) < MaxCrossPieces
        /\ <<col, 0>> \in DOMAIN grid.elements
        /\ \A p \in DOMAIN grid.elements : p[1] = col \/ p[2] = 0
        /\ add_at_column(col, typ)

NextCross == FillBottomRow \/ StackOnRow

SpecCross == Init /\ [][NextCross]_vars

NextLookup == InsertAt \/ PlaceAmongInserts

SpecLookup == Init /\ [][NextLookup]_vars

SpecUnchecked == Init /\ [][NextUnchecked]_vars

(* ------------------------------------------------------------------ *)
(* The Update systems of one frame                                     *)
(* ------------------------------------------------------------------ *)
\* CursorWorldPos as check_mouse_pos reads it: None when the cursor is outside
\* the grid rectangle (or outside the window), Some(c) over column c
CursorPlaces == {None} \cup {Some(c) : c \in 0 .. (MaxCursorColumns - 1)}

\* fn check_mouse_pos: the Column resource afterwards
CheckMousePos(col, cursor) == IF cursor = None THEN col ELSE cursor

\* the two println! of spawn_element (texts transliterated): the line that
\* names the winner, 0 => "krasnyj" (red), _ => "sinij" (blue), and the line
\* that names the player to move
WonLine(p) == <<"Pobedil", IF p = 0 THEN "krasnyj" ELSE "sinij">>
TurnLine(p) == <<"Hod igroka", p>>

\* player.0 = match player.0 { Some(0) => Some(1), _ => Some(0) }
OtherPlayer(p) == IF p = Some(0) THEN Some(1) ELSE Some(0)

\* fn spawn_element, run with the Column resource holding col
spawn_element(col) ==
    IF col = None
    THEN \* column.0.unwrap() on None
         /\ panicked' = TRUE
         /\ UNCHANGED <<grid, call, result, written, player, winner, out>>
    ELSE LET g == AddAtColumn(grid, Unwrap(col), Unwrap(player))
             matches == GetMatches(g)
             won == Len(matches) > 0
         IN /\ grid' = g
            /\ call' = <<Unwrap(col), Unwrap(player)>>
            /\ result' = AddAtColumnResult(grid, Unwrap(col), Unwrap(player))
            /\ written' = WrittenByAdd(written, grid, Unwrap(col), Unwrap(player))
            /\ winner' = IF won THEN player ELSE winner
            /\ player' = OtherPlayer(player)
            /\ out' = (IF won THEN <<WonLine(Unwrap(player))>> ELSE <<>>)
                          \o <<TurnLine(Unwrap(OtherPlayer(player)))>>
            /\ UNCHANGED panicked

\* a frame without a left click: check_mouse_pos alone changes state
MoveCursor ==
    \E cursor \in CursorPlaces :
        /\ ~panicked
        /\ column' = CheckMousePos(column, cursor)
        /\ UNCHANGED <<grid, call, result, written, player, winner, out, panicked>>

\* a frame in which the left button was just pressed: check_mouse_pos, then
\* spawn_element (chained systems)
Click ==
    \E cursor \in CursorPlaces :
        /\ ~panicked
        /\ LET col == CheckMousePos(column, cursor) IN
           /\ col # None =>
                 Pieces(grid) < MaxMoves \/ ColumnIsFull(grid, Unwrap(col))
           /\ column' = col
           /\ spawn_element(col)

NextGame == MoveCursor \/ Click

SpecGame == Init /\ [][NextGame]_vars

Spec == Init /\ [][Next]_vars

(* ------------------------------------------------------------------ *)
(* Placement: C1 - C4                                                  *)
(* ------------------------------------------------------------------ *)
OccupiedRows(g, col) == {y \in Rows(g) : <<col, y>> \in DOMAIN g.elements}

\* C1: gravity invariant. In every column the occupied rows are exactly
\* 0 .. k-1 for some k <= height: no occupied cell has an empty cell below it,
\* and every stored key lies in a column of the grid.
C1_Gravity ==
    /\ \A col \in Columns(grid) :
          \E k \in 0 .. grid.height : OccupiedRows(grid, col) = 0 .. (k - 1)
    /\ \A p \in DOMAIN grid.elements :
          /\ p[1] \in Columns(grid) /\ p[2] \in Rows(grid)
          /\ \A y \in 0 .. (p[2] - 1) : <<p[1], y>> \in DOMAIN grid.elements

\* three columns of different heights (3, 2 and 0 pieces) stand side by side
C1_Witness ==
    \E a, b, c \in Columns(grid) :
        /\ OccupiedRows(grid, a) = 0 .. 2
        /\ OccupiedRows(grid, b) = 0 .. 1
        /\ OccupiedRows(grid, c) = {}

\* C2: add_at_column(col, typ) on a column that is not full stores typ at
\* exactly one new cell, the row y = number of pieces already in the column,
\* and leaves every other cell, the width and the height unchanged.
C2_PlacesAtLowestEmptyRow ==
    [][(call' # <<>> /\ ~ColumnIsFull(grid, call'[1]) /\ add_at_column(call'[1], call'[2])) =>
              LET col == call'[1]
                  typ == call'[2]
                  y == ColumnCount(grid, col)
              IN
              /\ <<col, y>> \notin DOMAIN grid.elements
              /\ DOMAIN grid'.elements = (DOMAIN grid.elements) \cup {<<col, y>>}
              /\ grid'.elements[<<col, y>>] = typ
              /\ \A p \in DOMAIN grid.elements : grid'.elements[p] = grid.elements[p]
              /\ grid'.width = grid.width
              /\ grid'.height = grid.height]_vars

\* the last call stacked a piece of its type on top of a piece of the other
\* type, next to another occupied column
C2_Witness ==
    /\ call # <<>>
    /\ LET col == call[1]
           top == ColumnCount(grid, col) - 1
       IN /\ top >= 1
          /\ grid.elements[<<col, top>>] = call[2]
          /\ grid.elements[<<col, top - 1>>] # call[2]
          /\ \E other \in Columns(grid) : other # col /\ ColumnCount(grid, other) >= 1

\* C3 (as claimed): add_at_column on a full column returns a ColumnFull error
\* to its caller.
C3_FullColumnReportsError ==
    [][\A col \in Columns(grid), typ \in ElementTypes :
          (ColumnIsFull(grid, col) /\ add_at_column(col, typ)) =>
              result' = "ColumnFull"]_vars

\* C4: add_at_column on a column that already holds height pieces leaves the
\* grid (cells, width, height) unchanged, whatever the piece type.
C4_FullColumnLeavesGrid ==
    [][\A col \in Columns(grid), typ \in ElementTypes :
          (ColumnIsFull(grid, col) /\ add_at_column(col, typ)) =>
              grid' = grid]_vars

\* the last call named a full column and a type other than the one on top of
\* it: that call found no empty row
C4_Witness ==
    /\ call # <<>>
    /\ ColumnIsFull(grid, call[1])
    /\ grid.elements[<<call[1], grid.height - 1>>] # call[2]

(* ------------------------------------------------------------------ *)
(* Match detection: C5 - C7                                            *)
(* ------------------------------------------------------------------ *)
\* the n cells of row y starting at column x / of column x starting at row y
RowSegment(x, y, n) == {<<x + i, y>> : i \in 0 .. (n - 1)}
ColumnSegment(x, y, n) == {<<x, y + i>> : i \in 0 .. (n - 1)}

\* m is a segment of at least 4 consecutive cells of one row or one column
IsSegment(g, m) ==
    \E p \in m :
        \/ m = RowSegment(p[1], p[2], Cardinality(m))
        \/ m = ColumnSegment(p[1], p[2], Cardinality(m))

InGrid(g, m) == \A p \in m : p[1] \in Columns(g) /\ p[2] \in Rows(g)

\* all cells of m are occupied and hold one type
SameTyped(g, m) ==
    /\ m \subseteq DOMAIN g.elements
    /\ \A p, q \in m : g.elements[p] = g.elements[q]

MatchSet(g) == LET ms == GetMatches(g) IN {ms[i] : i \in 1 .. Len(ms)}

\* C5 (as claimed): every Match returned by get_matches is a contiguous
\* straight segment: consecutive cells of one row or one column, with no
\* skipped position between two of them.
C5_MatchesAreContiguous ==
    \A m \in MatchSet(grid) : InGrid(grid, m) /\ IsSegment(grid, m)

C7_MatchCompleteness ==
    LET ms == MatchSet(grid) IN
    \A p \in DOMAIN grid.elements :
        /\ \A n \in 4 .. (grid.width - p[1]) :
              SameTyped(grid, RowSegment(p[1], p[2], n)) =>
                  ms # {} /\ \E m \in ms : RowSegment(p[1], p[2], n) \subseteq m
        /\ \A n \in 4 .. (grid.height - p[2]) :
              SameTyped(grid, ColumnSegment(p[1], p[2], n)) =>
                  ms # {} /\ \E m \in ms : ColumnSegment(p[1], p[2], n) \subseteq m

\* a same-typed segment of 5 cells of a row is on the grid
C7_Witness ==
    \E x \in Columns(grid), y \in Rows(grid) :
        /\ InGrid(grid, RowSegment(x, y, 5))
        /\ SameTyped(grid, RowSegment(x, y, 5))

(* ------------------------------------------------------------------ *)
(* Thresholds on a single line: C8, C9                                 *)
(* ------------------------------------------------------------------ *)
\* the occupied cells are n same-typed cells forming one segment of row 0
IsBottomRowRun(g) ==
    /\ SameTyped(g, DOMAIN g.elements)
    /\ \E x \in Columns(g) :
          DOMAIN g.elements = RowSegment(x, 0, Cardinality(DOMAIN g.elements))

\* the occupied cells are n same-typed cells stacked from row 0 of one column
IsColumnStackRun(g) ==
    /\ SameTyped(g, DOMAIN g.elements)
    /\ \E x \in Columns(g) :
          DOMAIN g.elements = ColumnSegment(x, 0, Cardinality(DOMAIN g.elements))

IsFullBottomRow(g) == DOMAIN g.elements = RowSegment(0, 0, g.width)

\* the bottom row holds exactly the types of row, left to right
BottomRowIs(g, row) ==
    /\ Len(row) = g.width
    /\ IsFullBottomRow(g)
    /\ \A x \in Columns(g) : g.elements[<<x, 0>>] = row[x + 1]

\* the maximal same-typed runs of length >= 4 of the bottom row
MaximalBottomRuns(g) ==
    {RowSegment(x, 0, n) : <<x, n>> \in
        {xn \in Columns(g) \X (4 .. g.width) :
            /\ xn[1] + xn[2] <= g.width
            /\ SameTyped(g, RowSegment(xn[1], 0, xn[2]))
            /\ xn[1] > 0 =>
                  g.elements[<<xn[1] - 1, 0>>] # g.elements[<<xn[1], 0>>]
            /\ xn[1] + xn[2] < g.width =>
                  g.elements[<<xn[1] + xn[2], 0>>] # g.elements[<<xn[1], 0>>]}}

DeclaresWinner == Click /\ Len(out') = 2

\* C10 (as claimed): once a winner has been declared the game is over: no
\* later click places a further piece, switches the active player, or
\* declares a winner again.
C10_GameEndsOnWin ==
    [][winner # None =>
          /\ grid' = grid
          /\ player' = player
          /\ ~DeclaresWinner]_vars

(* ------------------------------------------------------------------ *)
(* Turn orchestration: C11, C12, C19                                   *)
(* ------------------------------------------------------------------ *)
\* C11 (as claimed): whenever spawn_element announces a winner, the announced
\* player is the player whose piece was placed by that same call, and the
\* grid holds a Match made of that player's piece type.
C11_DeclaredWinnerIsRight ==
    [][DeclaresWinner =>
          LET announced == Unwrap(winner') IN
          /\ \E pos \in (DOMAIN grid'.elements) \ (DOMAIN grid.elements) :
                grid'.elements[pos] = announced
          /\ \E m \in MatchSet(grid') :
                \A q \in m : grid'.elements[q] = announced]_vars

\* pieces of the first player minus pieces of the second player
PieceLead(g) ==
    Cardinality({p \in DOMAIN g.elements : g.elements[p] = 0})
        - Cardinality({p \in DOMAIN g.elements : g.elements[p] = 1})

\* C12 (as claimed): the active player is switched only after a successful
\* add_at_column; a click on a full column leaves the grid and the active
\* player unchanged, and the first player's pieces outnumber the second
\* player's by 0 or 1.
C12_RejectedMoveKeepsTurn ==
    [][/\ player' # player => grid' # grid
       /\ (Click /\ column' # None /\ ColumnIsFull(grid, Unwrap(column'))) =>
              (grid' = grid /\ player' = player)
       /\ PieceLead(grid') \in {0, 1}]_vars

\* C19 (as claimed): a left click while the Column resource still holds None
\* places no piece, does not switch the player and does not panic.
C19_NoCrashBeforeSelection ==
    [][(Click /\ column' = None) =>
          (~panicked' /\ grid' = grid /\ player' = player)]_vars

(* ------------------------------------------------------------------ *)
(* Empty cells and later placements: C17, C18                          *)
(* ------------------------------------------------------------------ *)
\* the cells of p's row that hold p's type and are separated from p by
\* nothing but empty cells and cells of p's type
RowGroup(g, p) ==
    {q \in DOMAIN g.elements :
        /\ q[2] = p[2]
        /\ g.elements[q] = g.elements[p]
        /\ \A r \in DOMAIN g.elements :
              (/\ r[2] = p[2]
               /\ \/ (p[1] < r[1] /\ r[1] < q[1])
                  \/ (q[1] < r[1] /\ r[1] < p[1]))
                  => g.elements[r] = g.elements[p]}

IsBottomRowOnly(g) == \A p \in DOMAIN g.elements : p[2] = 0

\* the bottom row is [0, 0, empty, 0, 0, empty, empty], nothing else placed
IsGapExample(g) ==
    /\ DOMAIN g.elements = {<<0, 0>>, <<1, 0>>, <<3, 0>>, <<4, 0>>}
    /\ \A p \in DOMAIN g.elements : g.elements[p] = 0

\* C17: an empty cell neither closes nor resets the current run: same-typed
\* cells of one row separated only by empty cells form a single run, returned
\* as one match when it has 4 or more cells; the bottom row [0,0,empty,0,0]
\* alone yields exactly one match holding those four coordinates.
C17_EmptyCellsInvisible ==
    /\ \A p \in DOMAIN grid.elements :
          Cardinality(RowGroup(grid, p)) >= 4 =>
              \E i \in 1 .. Len(GetMatches(grid)) :
                  GetMatches(grid)[i] = RowGroup(grid, p)
    /\ IsBottomRowOnly(grid) =>
          LET groups == {m \in {RowGroup(grid, p) : p \in DOMAIN grid.elements} :
                            Cardinality(m) >= 4}
          IN /\ MatchSet(grid) = groups
             /\ Len(GetMatches(grid)) = Cardinality(groups)
    /\ IsGapExample(grid) => GetMatches(grid) = <<DOMAIN grid.elements>>

\* the row [0,0,empty,0,0] was built and scanned
C17_Witness == IsGapExample(grid) /\ Len(GetMatches(grid)) = 1

\* C18 (as claimed): once get_matches is non-empty it stays non-empty after
\* any further add_at_column call.
C18_WinPersists ==
    [][Len(GetMatches(grid)) > 0 => Len(GetMatches(grid')) > 0]_vars

(* ------------------------------------------------------------------ *)
(* Out-of-range column: C13                                            *)
(* ------------------------------------------------------------------ *)
KeysInRange(g) ==
    \A p \in DOMAIN g.elements : p[1] \in Columns(g) /\ p[2] \in Rows(g)

\* C13 (as claimed): add_at_column with a column index >= width returns an
\* error to its caller and leaves the grid unchanged, so every stored key
\* satisfies 0 <= x < width and 0 <= y < height after any sequence of calls.
C13_OutOfRangeRejected ==
    [][/\ (/\ call' # <<>>
           /\ call'[1] >= grid.width
           /\ add_at_column(call'[1], call'[2]))
              => (result' # Unit /\ grid' = grid)
       /\ KeysInRange(grid')]_vars

(* ------------------------------------------------------------------ *)
(* Lookup: C14                                                         *)
(* ------------------------------------------------------------------ *)
\* the positions looked up: every cell of the grid and one column and one
\* row beyond it
LookupPositions(g) == (0 .. g.width) \X (0 .. g.height)

\* C14: after any sequence of insert / add_at_column calls, get(p) returns
\* the piece type most recently written at p, and Err(NoElem) for every
\* position never written.
C14_LookupCorrectness ==
    \A p \in LookupPositions(grid) :
        Get(grid, p) = IF p \in DOMAIN written
                       THEN Ok(written[p])
                       ELSE Err(NoElem)

\* the last call was insert(<<0, 1>>, 1) above an empty cell, next to a cell
\* that holds the other type
C14_Witness ==
    /\ call = <<0, 1, 1>>
    /\ ~Get(grid, <<0, 0>>).ok
    /\ Get(grid, <<0, 1>>) = Ok(1)
    /\ Get(grid, <<1, 0>>) = Ok(0)

(* ------------------------------------------------------------------ *)
(* Crossing runs: C15, C16                                             *)
(* ------------------------------------------------------------------ *)
\* p lies on 4 consecutive same-typed cells of its row / of its column
OnRowRun(g, p) ==
    \E x \in (p[1] - 3) .. p[1] :
        x >= 0 /\ x + 4 <= g.width /\ SameTyped(g, RowSegment(x, p[2], 4))
OnColumnRun(g, p) ==
    \E y \in (p[2] - 3) .. p[2] :
        y >= 0 /\ y + 4 <= g.height /\ SameTyped(g, ColumnSegment(p[1], y, 4))

\* the coordinates that occur in some match
MatchedCells(matches) == UNION {matches[i] : i \in 1 .. Len(matches)}

\* C15: when a cell lies on both a row run and a column run of length >= 4,
\* get_matches returns two Match entries that both contain that cell, and
\* without_duplicates() returns exactly the union of the coordinate sets of
\* all matches, the shared cell counted once.
C15_Deduplication ==
    LET ms == GetMatches(grid) IN
    /\ \A p \in DOMAIN grid.elements :
          (OnRowRun(grid, p) /\ OnColumnRun(grid, p)) =>
              Cardinality({i \in 1 .. Len(ms) : p \in ms[i]}) = 2
    /\ WithoutDuplicates(ms) = MatchedCells(ms)
    /\ Len(ms) = 2 =>
          Cardinality(WithoutDuplicates(ms)) =
              Cardinality(ms[1]) + Cardinality(ms[2]) - Cardinality(ms[1] \cap ms[2])

\* a cell lies on a row run and on a column run, and two matches share it
C15_Witness ==
    /\ \E p \in DOMAIN grid.elements : OnRowRun(grid, p) /\ OnColumnRun(grid, p)
    /\ Len(GetMatches(grid)) = 2
    /\ Cardinality(GetMatches(grid)[1] \cap GetMatches(grid)[2]) = 1
    /\ Cardinality(WithoutDuplicates(GetMatches(grid))) = 7

IsRowMatch(m) == \A p, q \in m : p[2] = q[2]
IsColumnMatch(m) == \A p, q \in m : p[1] = q[1]

\* C16 (as claimed): in the result of get_matches every match of a row
\* (fixed row, sweep across columns) precedes every match of a column (fixed
\* column, sweep across rows), and within each axis the matches come in
\* ascending order of the outer index.
C16_RowsBeforeColumns ==
    LET ms == GetMatches(grid) IN
    \A i, j \in 1 .. Len(ms) :
        i < j =>
            /\ ~(IsColumnMatch(ms[i]) /\ IsRowMatch(ms[j]))
            /\ (IsRowMatch(ms[i]) /\ IsRowMatch(ms[j])) =>
                  \A p \in ms[i], q \in ms[j] : p[2] <= q[2]
            /\ (IsColumnMatch(ms[i]) /\ IsColumnMatch(ms[j])) =>
                  \A p \in ms[i], q \in ms[j] : p[1] <= q[1]

====
